---------------------------- MODULE Spec2Model ----------------------------
(***************************************************************************)
(* Model of the two pieces of logic of asciify.calldata.space:             *)
(*                                                                         *)
(*   - the AsciifyReact component (src/components/AsciifyReact.tsx): the   *)
(*     debounced selectionchange handler that maps the browser selection   *)
(*     onto character indices, and its mount / unmount effect;             *)
(*   - the ETag middleware (src/middleware.ts): onRequest and digest.      *)
(*                                                                         *)
(* Four specifications share the variables:                                *)
(*   SpecIndexer    the selection computation applied to arbitrary text    *)
(*                  leaves and ranges (inputs drawn by InitIndexer);       *)
(*   SpecComponent  the component's life cycle, with the DOM React renders *)
(*                  (one text leaf per UTF-16 code unit of content);       *)
(*   SpecMiddleware requests passing through onRequest, one at a time;     *)
(*   SpecConcurrent several calls of onRequest interleaved at their awaits.*)
(***************************************************************************)
EXTENDS Integers, Sequences, FiniteSets, TLC

VARIABLES
    \* ---- AsciifyReact ----
    content,            \* the content prop of the latest render (a sequence of characters)
    capturedContent,    \* the content closed over by handleSelectionChange (useCallback, deps [])
    leaves,             \* text lengths of the text nodes under containerRef.current, in document order
    selection,          \* what window.getSelection() currently exposes
    selectedChars,      \* useState<Set<number>>
    containerRef,       \* containerRef.current is non-null
    listening,          \* the selectionchange listener is registered on document
    tornDown,           \* the effect's cleanup has run
    debounceTimeoutRef, \* debounceTimeoutRef.current (NoTimer = null)
    timers,             \* setTimeout callbacks pending in the event loop (timer ids)
    nextTimerId,        \* the id the next setTimeout returns
    runs,               \* history: the deferred computations that ran, in order
    cancelled,          \* history: timer ids cleared by clearTimeout while still pending
    characters,         \* the useMemo value: one {char, index, isSelected} per character
    lastRun,            \* history: the last deferred computation (did the walk throw, was it logged, was the set non-empty before)
    \* ---- middleware (one request at a time passes through onRequest) ----
    mwPc,               \* where onRequest is: idle, awaitNext, awaitBuffer, awaitDigest, done, rejected
    ifNoneMatch,        \* req.headers.get("if-none-match") (Null when absent)
    response,           \* what next() resolved to
    buf,                \* the bytes clone.arrayBuffer() resolved to
    out,                \* the response onRequest returned
    outcome,            \* which return statement produced it: NotModified, PassThrough, Tagged
    bodyReads,          \* history: times the body stream was drained for this request
    digests,            \* history: times digest() was called for this request
    cached,             \* history: the computed validator the client received last, and the body it came with
    served,             \* requests answered or failed so far
    failure,            \* the step that failed, the error it raised, the error onRequest rejected with
    \* ---- middleware (several calls of onRequest in flight) ----
    reqs                \* per call of onRequest: its position and its locals

compVars == <<content, capturedContent, leaves, selection, selectedChars, containerRef,
              listening, tornDown, debounceTimeoutRef, timers, nextTimerId, runs, cancelled,
              characters, lastRun>>

mwVars == <<mwPc, ifNoneMatch, response, buf, out, outcome, bodyReads, digests, cached, served,
           failure>>

vars == <<compVars, mwVars, reqs>>

\* ------------------------------------------------------------------ bounds
\* Longest content string.
MaxContentLen == 2
\* Most text leaves under the root, and the longest text of one leaf (SpecIndexer).
MaxLeaves == 3
MaxLeafLen == 2
\* Most selectionchange notifications in one behaviour.
MaxEvents == 2

\* ------------------------------------------------------------------ helpers
Min(a, b) == IF a < b THEN a ELSE b

\* debounceTimeoutRef.current === null; setTimeout ids are positive integers.
NoTimer == 0

\* A range boundary container that is not one of the text leaves visited under the
\* root: an element node, or a node outside the root.
NotALeaf == 0

\* The characters of a content string of length n.
CharAt(i) == IF i % 2 = 1 THEN "A" ELSE "B"
ContentOfLen(n) == [i \in 1..n |-> CharAt(i)]
Contents == {ContentOfLen(n) : n \in 0..MaxContentLen}

\* The DOM React renders at lines 206-215: one <span> holding one text node of one
\* UTF-16 code unit per element of content.split("").
RenderLeaves(c) == [i \in 1..Len(c) |-> 1]

RECURSIVE SumLens(_, _)
\* Total text length of the first k leaves.
SumLens(lv, k) == IF k = 0 THEN 0 ELSE SumLens(lv, k - 1) + lv[k]

\* ------------------------------------------------------------------ selections
NoSelection ==
    [rangeCount |-> 0, textLength |-> 0, inside |-> FALSE,
     startContainer |-> NotALeaf, startOffset |-> 0,
     endContainer |-> NotALeaf, endOffset |-> 0]

\* Boundary points inside the text leaves: <<leaf, offset within leaf>>.
LeafPoints(lv) == {p \in (1..Len(lv)) \X (0..MaxLeafLen) : p[2] <= lv[p[1]]}

DocOrderLE(p, q) == p[1] < q[1] \/ (p[1] = q[1] /\ p[2] <= q[2])

\* Ranges whose two boundary points are text leaves under the root. The DOM keeps
\* start <= end in document order; the common ancestor is then inside the root and
\* toString() is the text between the two points.
LeafSelections(lv) ==
    {[rangeCount |-> 1,
      textLength |-> (SumLens(lv, e[1] - 1) + e[2]) - (SumLens(lv, s[1] - 1) + s[2]),
      inside |-> TRUE,
      startContainer |-> s[1], startOffset |-> s[2],
      endContainer |-> e[1], endOffset |-> e[2]] :
        <<s, e>> \in {pq \in LeafPoints(lv) \X LeafPoints(lv) : DocOrderLE(pq[1], pq[2])}}

\* Ranges with a boundary point that is not a text leaf under the root (an element
\* boundary such as (div, 0), or a node outside the root).
OtherSelections(lv) ==
    {[rangeCount |-> 1, textLength |-> t, inside |-> b,
      startContainer |-> s[1], startOffset |-> s[2],
      endContainer |-> e[1], endOffset |-> e[2]] :
        t \in 0..1, b \in BOOLEAN,
        <<s, e>> \in {pq \in (LeafPoints(lv) \cup {<<NotALeaf, 0>>})
                             \X (LeafPoints(lv) \cup {<<NotALeaf, 0>>}) :
                         pq[1][1] = NotALeaf \/ pq[2][1] = NotALeaf}}

ValidSelections(lv) == {NoSelection} \cup LeafSelections(lv) \cup OtherSelections(lv)

\* ------------------------------------------------------------------ the computation
RECURSIVE Walk(_, _, _, _, _, _)
\* The while loop over walker.nextNode(): k is the next text node, the result is
\* <<startOffset, endOffset>> when the loop ends (end container found, or no node left).
Walk(lv, range, k, currentOffset, startOffset, endOffset) ==
    IF k > Len(lv) THEN <<startOffset, endOffset>>
    ELSE LET nodeLength == lv[k]
             s == IF k = range.startContainer
                  THEN currentOffset + range.startOffset ELSE startOffset
         IN  IF k = range.endContainer
             THEN <<s, currentOffset + range.endOffset>>
             ELSE Walk(lv, range, k + 1, currentOffset + nodeLength, s, endOffset)

RECURSIVE AddIndices(_, _, _, _)
\* for (let i = startOffset; i < endOffset && i < content.length; i++) add(i)
AddIndices(i, endOffset, contentLength, acc) ==
    IF i < endOffset /\ i < contentLength
    THEN AddIndices(i + 1, endOffset, contentLength, acc \cup {i})
    ELSE acc

\* NewSelectedChars with the index loop running to i <= endOffset.
NewSelectedChars_Inclusive(sel, attached, lv, contentLength) ==
    IF sel.rangeCount > 0 /\ sel.textLength > 0
    THEN IF attached /\ sel.inside
         THEN LET offs == Walk(lv, sel, 1, 0, 0, 0)
              IN  AddIndices(offs[1], offs[2] + 1, contentLength, {})
         ELSE {}
    ELSE {}

\* NewSelectedChars with endOffset initialised to the content length, not to 0.
NewSelectedChars_EndDefault(sel, attached, lv, contentLength) ==
    IF sel.rangeCount > 0 /\ sel.textLength > 0
    THEN IF attached /\ sel.inside
         THEN LET offs == Walk(lv, sel, 1, 0, 0, contentLength)
              IN  AddIndices(offs[1], offs[2], contentLength, {})
         ELSE {}
    ELSE {}

\* The body of the setTimeout callback up to setSelectedChars: newSelectedChars.
NewSelectedChars(sel, attached, lv, contentLength) ==
    IF sel.rangeCount > 0 /\ sel.textLength > 0
    THEN IF attached /\ sel.inside
         THEN LET offs == Walk(lv, sel, 1, 0, 0, 0)
              IN  AddIndices(offs[1], offs[2], contentLength, {})
         ELSE {}
    ELSE {}

\* The try block of lines 80-112 is reached: there is a non-collapsed selection
\* whose common ancestor the attached container contains.
EntersTry(sel, attached) ==
    sel.rangeCount > 0 /\ sel.textLength > 0 /\ attached /\ sel.inside

\* CallbackResult with an empty catch block.
CallbackResult_Silent(sel, attached, lv, contentLength, throws) ==
    IF throws
    THEN [chars |-> {}, warned |-> FALSE]
    ELSE [chars |-> NewSelectedChars(sel, attached, lv, contentLength), warned |-> FALSE]

\* The setTimeout callback up to setSelectedChars, when creating the TreeWalker,
\* walking the text nodes or reading the range offsets throws (throws) or not: the
\* catch of lines 113-116 logs with console.warn, and newSelectedChars, which is
\* filled only after the walk, is still empty.
CallbackResult(sel, attached, lv, contentLength, throws) ==
    IF throws
    THEN [chars |-> {}, warned |-> TRUE]
    ELSE [chars |-> NewSelectedChars(sel, attached, lv, contentLength), warned |-> FALSE]

\* Characters whose index is the 1-based position.
Characters_OneBased(c, selected) ==
    [i \in 1..Len(c) |-> [char |-> c[i], index |-> i, isSelected |-> i \in selected]]

\* Lines 43-49: content.split("").map((char, index) => ({char, index, isSelected})).
Characters(c, selected) ==
    [i \in 1..Len(c) |->
        [char |-> c[i], index |-> i - 1, isSelected |-> (i - 1) \in selected]]

\* Line 211: data-font of the span rendered for a character.
DataFont(ch) == IF ch.isSelected THEN "low-blockscript" ELSE "high-blockscript"

NoRun == [threw |-> FALSE, warned |-> FALSE, hadSelection |-> FALSE]

\* ------------------------------------------------------------------ actions
\* useEffect body: document.addEventListener("selectionchange", ...).
EffectSetup ==
    /\ ~listening /\ ~tornDown /\ containerRef
    /\ listening' = TRUE
    /\ UNCHANGED <<content, capturedContent, leaves, selection, selectedChars, containerRef,
                   tornDown, debounceTimeoutRef, timers, nextTimerId, runs, cancelled>>
    /\ UNCHANGED <<characters, lastRun>>
    /\ UNCHANGED <<mwVars, reqs>>

\* HandleSelectionChange without the clearTimeout of the pending timer.
HandleSelectionChange_NoClear ==
    IF ~containerRef
    THEN UNCHANGED <<debounceTimeoutRef, timers, nextTimerId, cancelled>>
    ELSE /\ timers' = timers \cup {nextTimerId}
         /\ cancelled' = cancelled
         /\ debounceTimeoutRef' = nextTimerId
         /\ nextTimerId' = nextTimerId + 1

\* handleSelectionChange up to and including the setTimeout call.
HandleSelectionChange ==
    IF ~containerRef
    THEN UNCHANGED <<debounceTimeoutRef, timers, nextTimerId, cancelled>>
    ELSE /\ timers' = (IF debounceTimeoutRef # NoTimer
                       THEN timers \ {debounceTimeoutRef} ELSE timers) \cup {nextTimerId}
         /\ cancelled' = IF debounceTimeoutRef # NoTimer
                         THEN cancelled \cup (timers \cap {debounceTimeoutRef})
                         ELSE cancelled
         /\ debounceTimeoutRef' = nextTimerId
         /\ nextTimerId' = nextTimerId + 1

\* The user changes the selection; the browser dispatches selectionchange to the
\* listeners registered on document.
SelectionChange ==
    /\ nextTimerId <= MaxEvents
    /\ listening
    /\ \E sel \in ValidSelections(leaves) : selection' = sel
    /\ HandleSelectionChange
    /\ UNCHANGED <<content, capturedContent, leaves, selectedChars, containerRef,
                   listening, tornDown, runs>>
    /\ UNCHANGED <<characters, lastRun>>
    /\ UNCHANGED <<mwVars, reqs>>

\* TimerCallback that adds the computed indices to the set already selected.
TimerCallback_Patch ==
    \E id \in timers, throws \in BOOLEAN :
        /\ throws => EntersTry(selection, containerRef)
        /\ timers' = timers \ {id}
        /\ LET r == CallbackResult(selection, containerRef, leaves,
                                   Len(capturedContent), throws)
           IN  /\ selectedChars' = selectedChars \cup r.chars
               /\ characters' = Characters(content, selectedChars \cup r.chars)
               /\ lastRun' = [threw |-> throws, warned |-> r.warned,
                              hadSelection |-> selectedChars # {}]
        /\ runs' = Append(runs, [id |-> id, latest |-> nextTimerId - 1])
        /\ UNCHANGED <<content, capturedContent, leaves, selection, containerRef,
                       listening, tornDown, debounceTimeoutRef, nextTimerId, cancelled>>
        /\ UNCHANGED <<mwVars, reqs>>

\* The event loop runs a pending setTimeout callback.
TimerCallback ==
    \E id \in timers, throws \in BOOLEAN :
        /\ throws => EntersTry(selection, containerRef)
        /\ timers' = timers \ {id}
        /\ LET r == CallbackResult(selection, containerRef, leaves,
                                   Len(capturedContent), throws)
           IN  /\ selectedChars' = r.chars
               /\ characters' = Characters(content, r.chars)
               /\ lastRun' = [threw |-> throws, warned |-> r.warned,
                              hadSelection |-> selectedChars # {}]
        /\ runs' = Append(runs, [id |-> id, latest |-> nextTimerId - 1])
        /\ UNCHANGED <<content, capturedContent, leaves, selection, containerRef,
                       listening, tornDown, debounceTimeoutRef, nextTimerId, cancelled>>
        /\ UNCHANGED <<mwVars, reqs>>

\* The parent renders the component with another content prop: React re-renders
\* the spans; handleSelectionChange keeps the closure of the first render.
ContentChange ==
    /\ containerRef /\ ~tornDown
    /\ \E c \in Contents \ {content} :
          /\ content' = c
          /\ characters' = Characters(c, selectedChars)
          /\ leaves' = RenderLeaves(c)
          /\ selection' = IF selection \in ValidSelections(RenderLeaves(c))
                          THEN selection ELSE NoSelection
    /\ UNCHANGED <<capturedContent, selectedChars, containerRef, listening, tornDown,
                   debounceTimeoutRef, timers, nextTimerId, runs, cancelled, lastRun>>
    /\ UNCHANGED <<mwVars, reqs>>

\* Unmount, commit phase: React detaches the ref (containerRef.current = null).
Detach ==
    /\ containerRef /\ listening
    /\ containerRef' = FALSE
    /\ UNCHANGED <<content, capturedContent, leaves, selection, selectedChars,
                   listening, tornDown, debounceTimeoutRef, timers, nextTimerId,
                   runs, cancelled>>
    /\ UNCHANGED <<characters, lastRun>>
    /\ UNCHANGED <<mwVars, reqs>>

\* EffectCleanup that removes the listener but leaves the pending timer alone.
EffectCleanup_NoClear ==
    /\ ~containerRef /\ listening
    /\ listening' = FALSE
    /\ tornDown' = TRUE
    /\ UNCHANGED <<content, capturedContent, leaves, selection, selectedChars,
                   containerRef, debounceTimeoutRef, nextTimerId, runs, timers, cancelled>>
    /\ UNCHANGED <<characters, lastRun>>
    /\ UNCHANGED <<mwVars, reqs>>

\* Unmount, the effect's cleanup: removeEventListener, then clearTimeout.
EffectCleanup ==
    /\ ~containerRef /\ listening
    /\ listening' = FALSE
    /\ tornDown' = TRUE
    /\ timers' = IF debounceTimeoutRef # NoTimer
                 THEN timers \ {debounceTimeoutRef} ELSE timers
    /\ cancelled' = IF debounceTimeoutRef # NoTimer
                    THEN cancelled \cup (timers \cap {debounceTimeoutRef})
                    ELSE cancelled
    /\ UNCHANGED <<content, capturedContent, leaves, selection, selectedChars,
                   containerRef, debounceTimeoutRef, nextTimerId, runs>>
    /\ UNCHANGED <<characters, lastRun>>
    /\ UNCHANGED <<mwVars, reqs>>

\* ================================================================== middleware
\* Most bytes in a response body, and most transport chunks they arrive in.
MaxBodyLen == 2
MaxChunks == 2
\* Most requests in one behaviour.
MaxRequests == 2
\* Calls of onRequest in flight together (SpecConcurrent).
MaxInFlight == 2

\* JavaScript null where a string is expected (Headers.get of an absent header).
Null == "<null>"
\* A JavaScript string used as a condition: neither null nor "".
Truthy(s) == s # Null /\ s # ""

LongLived == "public, max-age=31536000, must-revalidate"

Bytes == {0, 1}
ByteSeqs == UNION {[1..n -> Bytes] : n \in 0..MaxBodyLen}

RECURSIVE Flatten(_)
\* The bytes of a stream of chunks, in order.
Flatten(chunks) == IF chunks = <<>> THEN <<>> ELSE Head(chunks) \o Flatten(Tail(chunks))

\* Body streams: up to MaxChunks non-empty chunks holding up to MaxBodyLen bytes.
Bodies ==
    {cs \in UNION {[1..n -> ByteSeqs \ {<<>>}] : n \in 0..MaxChunks} :
        Len(Flatten(cs)) <= MaxBodyLen}

\* Headers: a function from lower-cased header names to values.
HeadersGet(h, name) == IF name \in DOMAIN h THEN h[name] ELSE Null
HeadersSet(h, name, value) ==
    [n \in DOMAIN h \cup {name} |-> IF n = name THEN value ELSE h[n]]
EmptyHeaders == [n \in {} |-> ""]

NoBody == [present |-> FALSE, chunks |-> <<>>]
StreamBody(cs) == [present |-> TRUE, chunks |-> cs]

StatusText(status) ==
    CASE status = 200 -> "OK"
      [] status = 404 -> "Not Found"
      [] status = 204 -> "No Content"
      [] OTHER -> ""

\* What the pages and endpoints behind the middleware set themselves.
ProducerHeaders(status) ==
    CASE status = 200 -> [n \in {"content-type"} |-> "text/html"]
      [] status = 404 -> [n \in {"content-type", "cache-control"} |->
                            IF n = "content-type" THEN "text/html" ELSE "no-store"]
      [] OTHER -> EmptyHeaders

ProducerETags == {Null, "", "\"v1\""}

WithETag(h, e) == IF e = Null THEN h ELSE HeadersSet(h, "etag", e)

\* The responses next() can resolve to.
ProducerResponses ==
    {[status |-> st, statusText |-> StatusText(st),
      headers |-> WithETag(ProducerHeaders(st), e), body |-> b] :
        st \in {200, 404}, e \in ProducerETags,
        b \in {NoBody} \cup {StreamBody(cs) : cs \in Bodies}}
    \cup
    {[status |-> 204, statusText |-> StatusText(204),
      headers |-> WithETag(ProducerHeaders(204), e), body |-> NoBody] :
        e \in ProducerETags}

NoResponse == [status |-> 0, statusText |-> "", headers |-> EmptyHeaders, body |-> NoBody]

\* ------------------------------------------------------------------ digest
RECURSIVE Sha256Fold(_, _)
Sha256Fold(bytes, acc) ==
    IF bytes = <<>> THEN acc
    ELSE Sha256Fold(Tail(bytes), (acc * 3 + Head(bytes) + 1) % 65536)

\* crypto.subtle.digest("SHA-256", val): a fixed-length digest that depends on
\* nothing but the bytes. The real function is stood for by a two-byte digest that
\* has no collision among the bodies of the model.
Sha256(bytes) ==
    LET h == Sha256Fold(bytes, 0) IN <<h \div 256, h % 256>>

HexDigits == <<"0", "1", "2", "3", "4", "5", "6", "7",
               "8", "9", "a", "b", "c", "d", "e", "f">>

\* b.toString(16).padStart(2, "0")
HexByte(b) ==
    IF b < 16 THEN "0" \o HexDigits[b + 1]
    ELSE HexDigits[(b \div 16) + 1] \o HexDigits[(b % 16) + 1]

RECURSIVE Join(_)
Join(strs) == IF strs = <<>> THEN "" ELSE Head(strs) \o Join(Tail(strs))

\* digest(val), val a Uint8Array.
Digest(bytes) ==
    LET hash == Sha256(bytes) IN Join([i \in 1..Len(hash) |-> HexByte(hash[i])])

\* `"${hash}"`
FormatETag(hash) == "\"" \o hash \o "\""

\* ArrayBuffer that takes one read() of the stream for the whole body.
ArrayBuffer_FirstChunk(body) == IF body.chunks = <<>> THEN <<>> ELSE Head(body.chunks)

\* await clone.arrayBuffer(): all the bytes of the (teed) body stream.
ArrayBuffer(body) == Flatten(body.chunks)

\* NotModifiedExisting that forgets headers.set("ETag", ...).
NotModifiedExisting_NoETag(existingEtag) ==
    [status |-> 304, statusText |-> "",
     headers |-> HeadersSet(EmptyHeaders, "cache-control", LongLived),
     body |-> NoBody]

\* ------------------------------------------------------------------ the responses built
\* Lines 25-29: a 304 for a validator the producer set.
NotModifiedExisting(existingEtag) ==
    [status |-> 304, statusText |-> "",
     headers |-> HeadersSet(HeadersSet(EmptyHeaders, "etag", existingEtag),
                            "cache-control", LongLived),
     body |-> NoBody]

\* Lines 51-55: a 304 for the computed validator.
NotModifiedComputed(resp, etag) ==
    [status |-> 304, statusText |-> "",
     headers |-> HeadersSet(HeadersSet(resp.headers, "etag", etag),
                            "cache-control", LongLived),
     body |-> NoBody]

\* TaggedResponse that hands on the producer's body stream, not the buffered bytes.
TaggedResponse_FromStream(resp, bytes, etag) ==
    [status |-> resp.status, statusText |-> resp.statusText,
     headers |-> HeadersSet(HeadersSet(resp.headers, "etag", etag),
                            "cache-control", LongLived),
     body |-> resp.body]

\* TaggedResponse that does not pass the producer's status on.
TaggedResponse_Status200(resp, bytes, etag) ==
    [status |-> 200, statusText |-> "",
     headers |-> HeadersSet(HeadersSet(resp.headers, "etag", etag),
                            "cache-control", LongLived),
     body |-> StreamBody(<<bytes>>)]

\* Lines 59-69: the body again, from the buffered bytes, with the validator.
TaggedResponse(resp, bytes, etag) ==
    [status |-> resp.status, statusText |-> resp.statusText,
     headers |-> HeadersSet(HeadersSet(resp.headers, "etag", etag),
                            "cache-control", LongLived),
     body |-> StreamBody(<<bytes>>)]

\* Matches that takes any If-None-Match for a match.
Matches_Loose(inm, etag) == Truthy(inm)

\* Matches that compares If-None-Match with the hash before it is quoted.
Matches_Unquoted(inm, etag) == Truthy(inm) /\ FormatETag(inm) = etag

\* `ifNoneMatch && ifNoneMatch === etag` (lines 23 and 50).
Matches(inm, etag) == Truthy(inm) /\ inm = etag

\* AfterNext that goes on to hash a response whose own ETag did not match.
AfterNext_TagAll(inm, resp) ==
    LET existingEtag == HeadersGet(resp.headers, "etag") IN
    IF Truthy(existingEtag) /\ Matches(inm, existingEtag)
    THEN [pc |-> "done", out |-> NotModifiedExisting(existingEtag),
          outcome |-> "NotModified"]
    ELSE IF ~resp.body.present
         THEN [pc |-> "done", out |-> resp, outcome |-> "PassThrough"]
         ELSE [pc |-> "awaitBuffer", out |-> NoResponse, outcome |-> "none"]

\* AfterNext without the `if (!response.body) return response` of line 37.
AfterNext_NoBodyCheck(inm, resp) ==
    LET existingEtag == HeadersGet(resp.headers, "etag") IN
    IF Truthy(existingEtag)
    THEN IF Matches(inm, existingEtag)
         THEN [pc |-> "done", out |-> NotModifiedExisting(existingEtag),
               outcome |-> "NotModified"]
         ELSE [pc |-> "done", out |-> resp, outcome |-> "PassThrough"]
    ELSE [pc |-> "awaitBuffer", out |-> NoResponse, outcome |-> "none"]

\* Lines 20-40, from the resolution of next() to the first return or to the await
\* of clone.arrayBuffer(): where onRequest goes and what it returns.
AfterNext(inm, resp) ==
    LET existingEtag == HeadersGet(resp.headers, "etag") IN
    IF Truthy(existingEtag)
    THEN IF Matches(inm, existingEtag)
         THEN [pc |-> "done", out |-> NotModifiedExisting(existingEtag),
               outcome |-> "NotModified"]
         ELSE [pc |-> "done", out |-> resp, outcome |-> "PassThrough"]
    ELSE IF ~resp.body.present
         THEN [pc |-> "done", out |-> resp, outcome |-> "PassThrough"]
         ELSE [pc |-> "awaitBuffer", out |-> NoResponse, outcome |-> "none"]

\* Lines 47-69, from the resolution of digest() to the return.
AfterDigest(inm, resp, bytes, hash) ==
    LET etag == FormatETag(hash) IN
    IF Matches(inm, etag)
    THEN [out |-> NotModifiedComputed(resp, etag), outcome |-> "NotModified"]
    ELSE [out |-> TaggedResponse(resp, bytes, etag), outcome |-> "Tagged"]

\* ------------------------------------------------------------------ failures
\* Errors a rejected promise can carry: what next() rejects with, what
\* clone.arrayBuffer() rejects with when the body stream errors, and what
\* crypto.subtle.digest rejects with.
ProducerErrors == {"UpstreamError", "TypeError"}
DrainError == "DrainError"
HashError == "HashError"

NoFailure == [step |-> "none", raised |-> Null, rejected |-> Null]

\* One call of onRequest: its position and its locals. onRequest and digest use no
\* variable outside their own scope.
IdleRequest ==
    [pc |-> "idle", ifNoneMatch |-> Null, response |-> NoResponse, buf |-> <<>>,
     out |-> NoResponse, outcome |-> "none"]

NoRequests == [i \in 1..MaxInFlight |-> IdleRequest]

\* An await, outside any try block, of a promise that rejects with error e: the
\* async function ends there and its own promise rejects with e.
AwaitRejected(step, e) == [step |-> step, raised |-> e, rejected |-> e]

\* ------------------------------------------------------------------ actions
NothingCached == [valid |-> FALSE, etag |-> Null, bytes |-> <<>>, chunks |-> <<>>, status |-> 0]

\* What a client sends as If-None-Match: nothing, an empty value, validators it
\* holds from elsewhere, or the computed validator it received last.
ClientValidators ==
    {Null, "", "\"v1\"", "\"stale\""} \cup (IF cached.valid THEN {cached.etag} ELSE {})

\* Lines 14-18: the request arrives; onRequest reads If-None-Match and awaits next().
RequestArrives ==
    /\ mwPc = "idle"
    /\ served < MaxRequests
    /\ \E inm \in ClientValidators : ifNoneMatch' = inm
    /\ mwPc' = "awaitNext"
    /\ UNCHANGED <<response, buf, out, outcome, bodyReads, digests, cached, served, failure>>
    /\ UNCHANGED <<compVars, reqs>>

\* Lines 18-40: next() resolves; onRequest runs to its first return or to
\* await clone.arrayBuffer().
ProducerResolves ==
    /\ mwPc = "awaitNext"
    /\ \E resp \in ProducerResponses :
        LET r == AfterNext(ifNoneMatch, resp) IN
        /\ response' = resp
        /\ mwPc' = r.pc
        /\ out' = r.out
        /\ outcome' = r.outcome
    /\ UNCHANGED <<ifNoneMatch, buf, bodyReads, digests, cached, served, failure>>
    /\ UNCHANGED <<compVars, reqs>>

\* Lines 43-44: clone.arrayBuffer() resolves; digest() is called and awaited.
BufferResolves ==
    /\ mwPc = "awaitBuffer"
    /\ buf' = ArrayBuffer(response.body)
    /\ bodyReads' = bodyReads + 1
    /\ digests' = digests + 1
    /\ mwPc' = "awaitDigest"
    /\ UNCHANGED <<ifNoneMatch, response, out, outcome, cached, served, failure>>
    /\ UNCHANGED <<compVars, reqs>>

\* Lines 44-69: digest() resolves; onRequest returns the 304 or the tagged body.
DigestResolves ==
    /\ mwPc = "awaitDigest"
    /\ LET r == AfterDigest(ifNoneMatch, response, buf, Digest(buf)) IN
        /\ out' = r.out
        /\ outcome' = r.outcome
    /\ mwPc' = "done"
    /\ UNCHANGED <<ifNoneMatch, response, buf, bodyReads, digests, cached, served, failure>>
    /\ UNCHANGED <<compVars, reqs>>

\* The response has gone to the client, which keeps the computed validator with the
\* body it stands for; the next request may arrive.
ResponseSent ==
    /\ mwPc = "done"
    /\ mwPc' = "idle"
    /\ served' = served + 1
    /\ cached' = IF digests > 0
                 THEN [valid |-> TRUE, etag |-> HeadersGet(out.headers, "etag"),
                       bytes |-> Flatten(response.body.chunks),
                       chunks |-> response.body.chunks, status |-> response.status]
                 ELSE cached
    /\ ifNoneMatch' = Null
    /\ response' = NoResponse
    /\ buf' = <<>>
    /\ out' = NoResponse
    /\ outcome' = "none"
    /\ bodyReads' = 0
    /\ digests' = 0
    /\ UNCHANGED failure
    /\ UNCHANGED <<compVars, reqs>>

\* ProducerRejects with the await of next() in a try block whose handler answers 500.
ProducerRejects_Caught ==
    /\ mwPc = "awaitNext"
    /\ \E e \in ProducerErrors :
        failure' = [step |-> "next", raised |-> e, rejected |-> Null]
    /\ mwPc' = "done"
    /\ out' = [status |-> 500, statusText |-> "", headers |-> EmptyHeaders, body |-> NoBody]
    /\ outcome' = "PassThrough"
    /\ UNCHANGED <<ifNoneMatch, response, buf, bodyReads, digests, cached, served>>
    /\ UNCHANGED <<compVars, reqs>>

\* Line 18: next() rejects (or throws); nothing catches it, onRequest rejects.
ProducerRejects ==
    /\ mwPc = "awaitNext"
    /\ \E e \in ProducerErrors : failure' = AwaitRejected("next", e)
    /\ mwPc' = "rejected"
    /\ UNCHANGED <<ifNoneMatch, response, buf, out, outcome, bodyReads, digests, cached, served>>
    /\ UNCHANGED <<compVars, reqs>>

\* Line 43: clone.arrayBuffer() rejects because the body stream errors while it is
\* drained; nothing catches it.
BufferRejects ==
    /\ mwPc = "awaitBuffer"
    /\ failure' = AwaitRejected("drain", DrainError)
    /\ bodyReads' = bodyReads + 1
    /\ mwPc' = "rejected"
    /\ UNCHANGED <<ifNoneMatch, response, buf, out, outcome, digests, cached, served>>
    /\ UNCHANGED <<compVars, reqs>>

\* Lines 4 and 44: crypto.subtle.digest rejects; digest() and then onRequest reject.
DigestRejects ==
    /\ mwPc = "awaitDigest"
    /\ failure' = AwaitRejected("hash", HashError)
    /\ mwPc' = "rejected"
    /\ UNCHANGED <<ifNoneMatch, response, buf, out, outcome, bodyReads, digests, cached, served>>
    /\ UNCHANGED <<compVars, reqs>>

\* The caller of onRequest has seen its promise reject: the request is over without
\* a response from the middleware; the next request may arrive.
RequestFailed ==
    /\ mwPc = "rejected"
    /\ mwPc' = "idle"
    /\ served' = served + 1
    /\ failure' = NoFailure
    /\ ifNoneMatch' = Null
    /\ response' = NoResponse
    /\ buf' = <<>>
    /\ bodyReads' = 0
    /\ digests' = 0
    /\ UNCHANGED <<out, outcome, cached>>
    /\ UNCHANGED <<compVars, reqs>>

\* No request yet. The component is not part of this specification: it stays as
\* first rendered with empty content.
InitMiddleware ==
    /\ mwPc = "idle"
    /\ ifNoneMatch = Null
    /\ response = NoResponse
    /\ buf = <<>>
    /\ out = NoResponse
    /\ outcome = "none"
    /\ bodyReads = 0
    /\ digests = 0
    /\ cached = NothingCached
    /\ served = 0
    /\ failure = NoFailure
    /\ reqs = NoRequests
    /\ content = <<>>
    /\ capturedContent = <<>>
    /\ leaves = <<>>
    /\ selection = NoSelection
    /\ selectedChars = {}
    /\ characters = <<>>
    /\ lastRun = NoRun
    /\ containerRef = TRUE
    /\ listening = FALSE
    /\ tornDown = FALSE
    /\ debounceTimeoutRef = NoTimer
    /\ timers = {}
    /\ nextTimerId = 1
    /\ runs = <<>>
    /\ cancelled = {}

NextMiddleware ==
    \/ RequestArrives
    \/ ProducerResolves
    \/ BufferResolves
    \/ DigestResolves
    \/ ResponseSent
    \/ ProducerRejects
    \/ BufferRejects
    \/ DigestRejects
    \/ RequestFailed

\* ------------------------------------------------------------------ specifications
\* The component after its first commit: ref attached, effect not yet run.
InitComponent ==
    /\ content \in Contents
    /\ capturedContent = content
    /\ leaves = RenderLeaves(content)
    /\ selection = NoSelection
    /\ selectedChars = {}
    /\ characters = Characters(content, {})
    /\ lastRun = NoRun
    /\ containerRef = TRUE
    /\ listening = FALSE
    /\ tornDown = FALSE
    /\ debounceTimeoutRef = NoTimer
    /\ timers = {}
    /\ nextTimerId = 1
    /\ runs = <<>>
    /\ cancelled = {}
    /\ mwPc = "idle"
    /\ ifNoneMatch = Null
    /\ response = NoResponse
    /\ buf = <<>>
    /\ out = NoResponse
    /\ outcome = "none"
    /\ bodyReads = 0
    /\ digests = 0
    /\ cached = NothingCached
    /\ served = 0
    /\ failure = NoFailure
    /\ reqs = NoRequests

NextComponent ==
    \/ EffectSetup
    \/ SelectionChange
    \/ TimerCallback
    \/ ContentChange
    \/ Detach
    \/ EffectCleanup

SpecComponent ==
    InitComponent /\ [][NextComponent]_vars

\* The event loop runs a due timer callback unless it is cleared first.
SpecComponentLive == SpecComponent /\ WF_vars(TimerCallback)

\* The selection computation on arbitrary inputs: a mounted component whose root
\* holds any text leaves, any selection the DOM can expose over them, any content
\* length, and one deferred computation pending.
AllLeaves == UNION {[1..n -> 0..MaxLeafLen] : n \in 0..MaxLeaves}

InitIndexer ==
    /\ content \in Contents
    /\ capturedContent = content
    /\ leaves \in AllLeaves
    /\ selection \in ValidSelections(leaves)
    /\ selectedChars \in {{}, {0}}
    /\ characters = Characters(content, selectedChars)
    /\ lastRun = NoRun
    /\ containerRef = TRUE
    /\ listening = TRUE
    /\ tornDown = FALSE
    /\ debounceTimeoutRef = 1
    /\ timers = {1}
    /\ nextTimerId = 2
    /\ runs = <<>>
    /\ cancelled = {}
    /\ mwPc = "idle"
    /\ ifNoneMatch = Null
    /\ response = NoResponse
    /\ buf = <<>>
    /\ out = NoResponse
    /\ outcome = "none"
    /\ bodyReads = 0
    /\ digests = 0
    /\ cached = NothingCached
    /\ served = 0
    /\ failure = NoFailure
    /\ reqs = NoRequests

NextIndexer == TimerCallback

SpecIndexer ==
    InitIndexer /\ [][NextIndexer]_vars

SpecMiddleware ==
    InitMiddleware /\ [][NextMiddleware]_vars

\* ------------------------------------------------------------------ concurrent requests
\* The requests of the concurrent specification: no validator, the producer's, or
\* the computed validator of the one-byte body 0; producer answers with status 200,
\* with or without an ETag, without a body or with a body of one byte.
ConcValidators == {Null, "\"v1\"", FormatETag(Digest(<<0>>))}

ConcResponses ==
    {r \in ProducerResponses :
        /\ r.status = 200
        /\ HeadersGet(r.headers, "etag") # ""
        /\ Len(Flatten(r.body.chunks)) <= 1}

\* What onRequest returns for a request processed alone, with no other call in
\* flight: lines 18-69 run through.
Alone(inm, resp) ==
    LET r == AfterNext(inm, resp) IN
    IF r.pc = "done" THEN [out |-> r.out, outcome |-> r.outcome]
    ELSE LET bytes == ArrayBuffer(resp.body)
         IN  AfterDigest(inm, resp, bytes, Digest(bytes))

\* Lines 14-18 for call i.
ConcRequestArrives ==
    \E i \in 1..MaxInFlight, inm \in ConcValidators :
        /\ reqs[i].pc = "idle"
        /\ reqs' = [reqs EXCEPT ![i] = [@ EXCEPT !.pc = "awaitNext", !.ifNoneMatch = inm]]
        /\ UNCHANGED <<compVars, mwVars>>

\* Lines 18-40 for call i.
ConcProducerResolves ==
    \E i \in 1..MaxInFlight, resp \in ConcResponses :
        /\ reqs[i].pc = "awaitNext"
        /\ LET r == AfterNext(reqs[i].ifNoneMatch, resp)
           IN  reqs' = [reqs EXCEPT ![i] = [@ EXCEPT !.response = resp, !.pc = r.pc,
                                                     !.out = r.out, !.outcome = r.outcome]]
        /\ UNCHANGED <<compVars, mwVars>>

\* ConcBufferResolves with buf declared at module level: one buf for all calls.
ConcBufferResolves_SharedBuf ==
    \E i \in 1..MaxInFlight :
        /\ reqs[i].pc = "awaitBuffer"
        /\ reqs' = [j \in 1..MaxInFlight |->
                       IF j = i
                       THEN [reqs[j] EXCEPT !.buf = ArrayBuffer(reqs[i].response.body),
                                            !.pc = "awaitDigest"]
                       ELSE [reqs[j] EXCEPT !.buf = ArrayBuffer(reqs[i].response.body)]]
        /\ UNCHANGED <<compVars, mwVars>>

\* Lines 43-44 for call i.
ConcBufferResolves ==
    \E i \in 1..MaxInFlight :
        /\ reqs[i].pc = "awaitBuffer"
        /\ reqs' = [reqs EXCEPT ![i] = [@ EXCEPT !.buf = ArrayBuffer(reqs[i].response.body),
                                                 !.pc = "awaitDigest"]]
        /\ UNCHANGED <<compVars, mwVars>>

\* Lines 44-69 for call i.
ConcDigestResolves ==
    \E i \in 1..MaxInFlight :
        /\ reqs[i].pc = "awaitDigest"
        /\ LET r == AfterDigest(reqs[i].ifNoneMatch, reqs[i].response, reqs[i].buf,
                                Digest(reqs[i].buf))
           IN  reqs' = [reqs EXCEPT ![i] = [@ EXCEPT !.pc = "done", !.out = r.out,
                                                     !.outcome = r.outcome]]
        /\ UNCHANGED <<compVars, mwVars>>

NextConcurrent ==
    \/ ConcRequestArrives
    \/ ConcProducerResolves
    \/ ConcBufferResolves
    \/ ConcDigestResolves

SpecConcurrent ==
    InitMiddleware /\ [][NextConcurrent]_vars


\* ================================================================== properties
AbsOffset(lv, node, off) == SumLens(lv, node - 1) + off

LeafAnchored(sel) ==
    sel.rangeCount > 0 /\ sel.startContainer # NotALeaf /\ sel.endContainer # NotALeaf

\* C1: for any text leaves and any non-collapsed selection whose two anchors are
\* text leaves under the root (start <= end in document order), the computation,
\* when nothing throws in it,
\* leaves exactly { i : startOffset <= i < min(endOffset, contentLength) } in
\* selectedChars, where startOffset / endOffset is the text length of the leaves
\* before the anchor's leaf plus the anchor's offset within its leaf.
C1_SelectedIndices ==
    (runs # <<>> /\ ~lastRun.threw /\ LeafAnchored(selection) /\ selection.textLength > 0) =>
        LET startAbs == AbsOffset(leaves, selection.startContainer, selection.startOffset)
            endAbs == AbsOffset(leaves, selection.endContainer, selection.endOffset)
        IN  selectedChars =
                {i \in 0..SumLens(leaves, Len(leaves)) :
                    startAbs <= i /\ i < Min(endAbs, Len(capturedContent))}

\* Content "AB", the selection covers just "A": the result is {0}.
C1_Witness ==
    /\ runs # <<>>
    /\ capturedContent = <<"A", "B">>
    /\ leaves = <<1, 1>>
    /\ selection.rangeCount = 1 /\ selection.textLength = 1
    /\ selection.startContainer = 1 /\ selection.startOffset = 0
    /\ selection.endContainer = 1 /\ selection.endOffset = 1
    /\ ~lastRun.threw
    /\ selectedChars = {0}

ProducerETag == HeadersGet(response.headers, "etag")
OutETag == HeadersGet(out.headers, "etag")
BodyBytes == Flatten(response.body.chunks)
ComputedValidator == FormatETag(Digest(BodyBytes))

\* C2: a request that sends as If-None-Match the ETag E an earlier response was
\* given for a body, while the producer returns the same bytes with a body and no
\* ETag of its own, is answered 304 with an empty body and ETag E.
C2_RevalidationRoundTrip ==
    (/\ mwPc = "done"
     /\ cached.valid /\ ifNoneMatch = cached.etag
     /\ ~Truthy(ProducerETag) /\ response.body.present
     /\ BodyBytes = cached.bytes)
        => (out.status = 304 /\ ~out.body.present /\ OutETag = cached.etag)

C2_Witness ==
    /\ mwPc = "done"
    /\ cached.valid /\ ifNoneMatch = cached.etag
    /\ ~Truthy(ProducerETag) /\ response.body.present
    /\ BodyBytes = cached.bytes /\ BodyBytes # <<>>
    /\ out.status = 304

\* C3: a body and no ETag from the producer, If-None-Match absent or other than the
\* computed validator: the response is Tagged, with the producer's status and
\* statusText, the same body bytes, and the producer's headers with ETag set to the
\* quoted hash and Cache-Control to the long-lived directive.
C3_Tagged ==
    (/\ mwPc = "done"
     /\ response.body.present /\ ~Truthy(ProducerETag)
     /\ (ifNoneMatch = Null \/ ifNoneMatch # ComputedValidator))
        => /\ outcome = "Tagged"
           /\ out.status = response.status
           /\ out.statusText = response.statusText
           /\ out.body.present
           /\ Flatten(out.body.chunks) = BodyBytes
           /\ DOMAIN out.headers = DOMAIN response.headers \cup {"etag", "cache-control"}
           /\ \A n \in DOMAIN response.headers \ {"etag", "cache-control"} :
                 out.headers[n] = response.headers[n]
           /\ out.headers["etag"] = ComputedValidator
           /\ out.headers["cache-control"] = LongLived

C3_Witness ==
    /\ mwPc = "done" /\ outcome = "Tagged"
    /\ response.status = 404
    /\ Len(response.body.chunks) = 2
    /\ ifNoneMatch = "\"stale\""

\* C4: the producer's response carries an ETag V and If-None-Match equals V: the
\* answer is 304 with ETag V, and the body was not drained nor hashed.
C4_ExistingETagMatch ==
    (mwPc = "done" /\ Truthy(ProducerETag) /\ ifNoneMatch = ProducerETag)
        => /\ out.status = 304
           /\ OutETag = ProducerETag
           /\ bodyReads = 0 /\ digests = 0

C4_Witness ==
    /\ mwPc = "done"
    /\ ProducerETag = "\"v1\"" /\ ifNoneMatch = "\"v1\""
    /\ response.body.present
    /\ out.status = 304

\* C5: the producer's response carries an ETag and If-None-Match is absent or
\* different: the producer's response is returned as it is (status, headers, body)
\* and its body is not read.
C5_ExistingETagPassThrough ==
    (mwPc = "done" /\ Truthy(ProducerETag) /\ ifNoneMatch # ProducerETag)
        => /\ outcome = "PassThrough"
           /\ out = response
           /\ bodyReads = 0 /\ digests = 0

C5_Witness ==
    /\ mwPc = "done"
    /\ ProducerETag = "\"v1\"" /\ ifNoneMatch = "\"stale\""
    /\ response.body.present /\ response.status = 404
    /\ out = response

\* C6: no ETag and no body from the producer: the response is returned as it is,
\* with no ETag added, whatever If-None-Match is.
C6_NoBodyPassThrough ==
    (mwPc = "done" /\ ~Truthy(ProducerETag) /\ ~response.body.present)
        => /\ outcome = "PassThrough"
           /\ out = response
           /\ OutETag = ProducerETag
           /\ bodyReads = 0 /\ digests = 0

C6_Witness ==
    /\ mwPc = "done"
    /\ response.status = 204 /\ ProducerETag = Null
    /\ ifNoneMatch = "\"v1\""
    /\ out = response /\ "etag" \notin DOMAIN out.headers

\* C7: every NotModified outcome has status 304, no body, and exactly the two
\* headers ETag (the validator) and Cache-Control (the long-lived directive).
C7_NotModifiedHeaders ==
    (mwPc = "done" /\ outcome = "NotModified")
        => /\ out.status = 304
           /\ ~out.body.present
           /\ DOMAIN out.headers = {"etag", "cache-control"}
           /\ out.headers["etag"] = ifNoneMatch
           /\ out.headers["cache-control"] = LongLived

\* C8: the computed ETag depends on the body bytes alone: a response whose body
\* holds the bytes an earlier response held gets the ETag the earlier one got,
\* however the bytes are chunked and whatever the status and the other headers.
C8_ETagOfBytesAlone ==
    (/\ mwPc = "done" /\ digests > 0
     /\ cached.valid /\ cached.bytes = BodyBytes)
        => OutETag = cached.etag

C8_Witness ==
    /\ mwPc = "done" /\ digests > 0
    /\ cached.valid /\ cached.bytes = BodyBytes
    /\ cached.chunks # response.body.chunks
    /\ cached.status # response.status
    /\ OutETag = cached.etag

RanIds == {runs[i].id : i \in 1..Len(runs)}

\* C9 (state part): at most one deferred computation is pending, and it is the one
\* the latest notification scheduled; every computation scheduled before it has
\* either run or been cancelled, never both; a computation that ran was, when it
\* ran, the one the most recent notification had scheduled, and ran once.
C9_CoalescingInv ==
    /\ Cardinality(timers) <= 1
    /\ timers \subseteq {nextTimerId - 1}
    /\ timers # {} => debounceTimeoutRef = nextTimerId - 1
    /\ RanIds \cap cancelled = {}
    /\ RanIds \cup cancelled \cup timers = 1..(nextTimerId - 1)
    /\ \A i \in 1..Len(runs) : runs[i].id = runs[i].latest
    /\ \A i, j \in 1..Len(runs) : i < j => runs[i].id < runs[j].id

\* C9: coalescing. The state part above, and a pending computation does not stay
\* pending: it runs, unless a later notification or the teardown cancels it (with
\* the state part, every id that leaves timers is in RanIds or in cancelled).
C9_Coalescing ==
    /\ []C9_CoalescingInv
    /\ (timers # {}) ~> (timers = {})

\* A burst of two notifications: the first computation was cancelled, the second ran.
C9_Witness ==
    /\ 1 \in cancelled
    /\ Len(runs) = 1 /\ runs[1].id = 2
    /\ ~tornDown

\* C10: once the effect's cleanup has run, no deferred computation is pending, none
\* runs, and selectedChars is not updated again.
C10_TeardownCancels ==
    /\ [](tornDown => timers = {})
    /\ [][tornDown => (runs' = runs /\ selectedChars' = selectedChars)]_vars

\* The cleanup cancelled the computation the latest notification had scheduled.
C10_Witness ==
    /\ tornDown
    /\ nextTimerId > 1 /\ (nextTimerId - 1) \in cancelled
    /\ selectedChars # {}

\* C11: in every reachable state of the component, selectedChars is a subset of
\* [0, content.length) for the content the component currently renders.
C11_SelectedWithinContent ==
    selectedChars \subseteq 0..(Len(content) - 1)

\* The selection yields no valid selection for the computation: none, collapsed,
\* or its common ancestor is not contained in the root.
NoValidSelection ==
    selection.rangeCount = 0 \/ selection.textLength = 0 \/ ~selection.inside

\* C12: selectedChars is empty from the mount until a computation has run, and a
\* computation that runs with no selection, a collapsed selection or a selection
\* whose common ancestor is outside the root leaves it empty, whatever it held.
C12_EmptyWithoutSelection ==
    /\ [](runs = <<>> => selectedChars = {})
    /\ [][(runs' # runs /\ NoValidSelection) => selectedChars' = {}]_vars

\* A computation found a collapsed selection and emptied a non-empty set.
C12_Witness ==
    /\ runs # <<>> /\ timers = {}
    /\ runs[Len(runs)].id = nextTimerId - 1
    /\ selection.rangeCount = 1 /\ selection.textLength = 0
    /\ lastRun.hadSelection /\ ~lastRun.threw
    /\ selectedChars = {}

\* C13: when the walk of the text leaves or the reading of the offsets throws, the
\* computation still completes (it is recorded as run and has set selectedChars),
\* selectedChars is empty, and the failure was logged.
C13_FailureClearsAndLogs ==
    lastRun.threw => (runs # <<>> /\ selectedChars = {} /\ lastRun.warned)

\* The walk threw in a computation that found a set already selected.
C13_Witness ==
    /\ lastRun.threw /\ lastRun.warned /\ lastRun.hadSelection
    /\ selectedChars = {}
    /\ LeafAnchored(selection) /\ selection.textLength > 0

\* C18: the derived characters have the indices 0 .. content.length - 1 in order,
\* each with the character at that index, isSelected exactly when the index is in
\* selectedChars, data-font "low-blockscript" exactly when selected and
\* "high-blockscript" otherwise; deriving them again gives the same sequence.
C18_Characters ==
    /\ Len(characters) = Len(content)
    /\ \A i \in 1..Len(characters) :
          /\ characters[i].index = i - 1
          /\ characters[i].char = content[i]
          /\ characters[i].isSelected <=> ((i - 1) \in selectedChars)
          /\ (DataFont(characters[i]) = "low-blockscript") <=> ((i - 1) \in selectedChars)
          /\ (DataFont(characters[i]) = "high-blockscript") <=> ((i - 1) \notin selectedChars)
    /\ \A i, j \in 1..Len(characters) :
          characters[i].index = characters[j].index => i = j
    /\ characters = Characters(content, selectedChars)

\* "AB" with B selected and A not.
C18_Witness ==
    /\ content = <<"A", "B">>
    /\ selectedChars = {1}
    /\ characters[1].isSelected = FALSE /\ characters[2].isSelected = TRUE
    /\ DataFont(characters[2]) = "low-blockscript"

\* C20: when the end container of the range is not a text leaf visited under the
\* root, the computed set is empty wherever the start anchor is.
C20_NonLeafEndIsEmpty ==
    (runs # <<>> /\ selection.rangeCount > 0 /\ selection.endContainer = NotALeaf)
        => selectedChars = {}

\* A non-collapsed selection inside the root, from a text leaf to an element boundary.
C20_Witness ==
    /\ runs # <<>> /\ ~lastRun.threw
    /\ selection.rangeCount = 1 /\ selection.textLength > 0 /\ selection.inside
    /\ selection.startContainer = 1 /\ selection.endContainer = NotALeaf
    /\ Len(capturedContent) > 0 /\ lastRun.hadSelection
    /\ selectedChars = {}

\* C14: when draining the body or computing the hash fails, the request does not
\* fail: onRequest returns the producer's own response, unconsumed, with no ETag.
C14_HashFailureFallsBack ==
    failure.step \in {"drain", "hash"} =>
        /\ mwPc = "done" /\ outcome = "PassThrough"
        /\ out = response
        /\ OutETag = Null

\* C15: a failure of the producer is neither caught nor transformed: onRequest
\* rejects with the very error next() raised and returns no response.
C15_ProducerErrorPropagates ==
    failure.step = "next" =>
        /\ mwPc = "rejected"
        /\ failure.rejected = failure.raised
        /\ failure.raised \in ProducerErrors
        /\ out = NoResponse /\ outcome = "none"

\* next() rejected for a conditional request.
C15_Witness ==
    /\ mwPc = "rejected" /\ failure.step = "next"
    /\ failure.rejected = "UpstreamError"
    /\ ifNoneMatch = "\"v1\""
    /\ out = NoResponse

\* C16: the body stream is drained at most once per request, and not at all on the
\* paths that return before the hash; the hash and the body of a Tagged response
\* both come from the one buffered copy buf of the bytes.
C16_BodyReadOnce ==
    /\ bodyReads <= 1 /\ digests <= bodyReads
    /\ (mwPc = "done" /\ digests = 0) => bodyReads = 0
    /\ mwPc = "awaitDigest" => (bodyReads = 1 /\ buf = BodyBytes)
    /\ (mwPc = "done" /\ outcome = "Tagged") =>
          /\ bodyReads = 1 /\ digests = 1
          /\ buf = BodyBytes
          /\ out.body = StreamBody(<<buf>>)
          /\ OutETag = FormatETag(Digest(buf))

\* A body that arrives in two chunks was drained once and returned Tagged.
C16_Witness ==
    /\ mwPc = "done" /\ outcome = "Tagged"
    /\ Len(response.body.chunks) = 2
    /\ bodyReads = 1
    /\ out.body.chunks = <<buf>>

\* C19: a 304 built by the middleware answers only a request whose If-None-Match
\* is present and string-equal to the validator: the producer's ETag when it set a
\* non-empty one, the computed one otherwise. No If-None-Match, or any other
\* value, never gets one.
C19_NotModifiedOnlyOnMatch ==
    (mwPc = "done" /\ outcome = "NotModified") =>
        /\ ifNoneMatch # Null
        /\ ifNoneMatch = (IF Truthy(ProducerETag) THEN ProducerETag ELSE ComputedValidator)
        /\ ifNoneMatch = OutETag

\* A second request sent back the computed validator of the first answer and got
\* the 304 for a producer response without an ETag.
C19_Witness ==
    /\ mwPc = "done" /\ outcome = "NotModified"
    /\ ~Truthy(ProducerETag) /\ ifNoneMatch = ComputedValidator
    /\ served = 1 /\ cached.valid

\* What call i has returned.
C17_Return(i) == [out |-> reqs[i].out, outcome |-> reqs[i].outcome]

\* C17: with several calls of onRequest in flight, interleaved in any order at
\* their awaits, every call that has returned has returned what it would return
\* processed alone, and a step of one call changes nothing of another call.
C17_ConcurrentIndependent ==
    /\ [](\A i \in 1..MaxInFlight :
            reqs[i].pc = "done" =>
                C17_Return(i) = Alone(reqs[i].ifNoneMatch, reqs[i].response))
    /\ [][\A i, j \in 1..MaxInFlight :
            (i # j /\ reqs'[i] # reqs[i]) => reqs'[j] = reqs[j]]_vars

\* Two calls with different bodies: the second drained its body while the first
\* awaited its hash, and the first has returned its own bytes tagged.
C17_Witness ==
    /\ reqs[1].pc = "done" /\ reqs[1].outcome = "Tagged"
    /\ reqs[2].pc = "awaitDigest"
    /\ reqs[1].buf = <<0>> /\ reqs[2].buf = <<1>>
    /\ reqs[1].out.body = StreamBody(<<(<<0>>)>>)

=============================================================================
